---- MODULE Spec2Model ----
(***************************************************************************)
(* GaussianEpilogue (include_cutlass_epilogue_thread_gaussian.h): the      *)
(* elementwise epilogue D = p1 * exp(-0.5 * ((p2 - x) / p3)^2).            *)
(*                                                                         *)
(* Numeric types.  The functor is a template over ElementAccumulator,      *)
(* ElementCompute and ElementOutput.  The model instantiates it with three *)
(* binary floating-point types of decreasing precision (AccFmt, ComputeFmt,*)
(* OutputFmt), each with subnormals, two infinities and NaN, and           *)
(* round-to-nearest-even (FloatRoundStyle::round_to_nearest).  A finite    *)
(* value is held exactly, as an integer count of units of 2^-5; every      *)
(* arithmetic result is the exact rational result rounded to the type.     *)
(* The sign of a zero is not tracked: the normalized difference enters the *)
(* result only through its square, so the sign of a zero can only change   *)
(* the sign of a zero output.                                              *)
(***************************************************************************)
EXTENDS Integers, FiniteSets, Sequences, TLC

VARIABLES
  mem,          \* caller-owned parameter buffers: buffer name -> [index -> value]
  params,       \* the Params record the functor was constructed from
  p1_, p2_, p3_,\* the functor's data members (pointers = buffer names)
  call,         \* the last completed sequential call and its arguments
  ret,          \* what that call returned
  reads,        \* the parameter elements <<buffer, index>> that call read
  partitioned,  \* whether set_k_partition has been called on the functor
  upc,          \* concurrent execution units: position in operator()
  uacc,         \* ... the accumulator fragment the unit was given
  uconv,        \* ... its converted_accumulator
  ui,           \* ... its loop counter i
  uout,         \* ... the fragment it returned
  intermediate  \* storage of the local `intermediate`, one slot per unit

vars == <<mem, params, p1_, p2_, p3_, call, ret, reads, partitioned,
          upc, uacc, uconv, ui, uout, intermediate>>

seqVars == <<call, ret, reads, partitioned>>
unitVars == <<upc, uacc, uconv, ui, uout, intermediate>>
functorVars == <<mem, params, p1_, p2_, p3_>>

-----------------------------------------------------------------------------
(* Floating-point values *)

Pow2(k) == 2^k

\* One is this many units (finite values are multiples of 2^-5).
One == Pow2(5)

Fin(n) == [k |-> "fin", n |-> n]
PosInf == [k |-> "inf", n |-> 1]
NegInf == [k |-> "inf", n |-> -1]
NaN == [k |-> "nan", n |-> 0]
Zero == Fin(0)

IsFin(v) == v.k = "fin"
IsInf(v) == v.k = "inf"
IsNaN(v) == v.k = "nan"
IsZero(v) == v.k = "fin" /\ v.n = 0

Abs(n) == IF n < 0 THEN -n ELSE n
Sgn(n) == IF n < 0 THEN -1 ELSE IF n > 0 THEN 1 ELSE 0
SignOf(v) == Sgn(v.n)
Neg(v) == IF IsNaN(v) THEN NaN ELSE [k |-> v.k, n |-> -v.n]

\* A binary floating-point type: p bits of precision, exponents emin..emax.
AccFmt == [p |-> 4, emin |-> -2, emax |-> 2]
ComputeFmt == [p |-> 3, emin |-> -2, emax |-> 2]
OutputFmt == [p |-> 2, emin |-> -1, emax |-> 1]

\* The unit in the last place, in units of 2^-5, at exponent e of format f.
Ulp(f, e) == Pow2(e - f.p + 1 + 5)

\* The non-negative finite values of a format: zero, subnormals, normals.
FmtMags(f) ==
  {0} \cup { m * Ulp(f, f.emin) : m \in 1..(Pow2(f.p - 1) - 1) }
      \cup { m * Ulp(f, e) : m \in Pow2(f.p - 1)..(Pow2(f.p) - 1), e \in f.emin..f.emax }

\* The largest finite magnitude of a format.
MaxMag(f) == (Pow2(f.p) - 1) * Ulp(f, f.emax)

\* The exponent of the binade that holds the non-negative rational num/den:
\* the largest e with 2^e <= num/den, kept within emin..emax (below 2^emin the
\* values are subnormal and share the ulp of emin).
RECURSIVE Binade(_, _, _, _)
Binade(f, e, num, den) ==
  IF e = f.emin \/ Pow2(f.p - 1) * Ulp(f, e) * den <= num THEN e
  ELSE Binade(f, e - 1, num, den)

\* Round the non-negative rational num/den (in units) to a multiple of u, to
\* nearest, ties to the even multiple; a result beyond the largest finite value
\* of format f is infinity.  The result is a magnitude, or -1 for infinity.
RoundAt(f, num, den, u) ==
  LET m == num \div (den * u)
      r == num - m * den * u
      up == 2 * r > den * u \/ (2 * r = den * u /\ m % 2 = 1)
      v == (IF up THEN m + 1 ELSE m) * u
  IN IF v > MaxMag(f) THEN -1 ELSE v

\* The same to format f: a multiple of the ulp of the binade of num/den.
RoundMag(f, num, den) ==
  CHOOSE v \in { RoundAt(f, num, den, u) : u \in {Ulp(f, Binade(f, f.emax, num, den))} } : TRUE

\* The value of sign s with the magnitude m that RoundMag gave.
Signed(s, m) == IF m = -1 THEN (IF s < 0 THEN NegInf ELSE PosInf) ELSE Fin(s * m)

\* The rational n/d (d > 0) rounded to a value of format f.
Rounded(f, n, d) ==
  CHOOSE r \in { Signed(Sgn(n), m) : m \in {RoundMag(f, Abs(n), d)} } : TRUE

\* The same, with num and den evaluated once each.
RoundTo(f, num, den) ==
  CHOOSE r \in { Rounded(f, n, d) : n \in {num}, d \in {den} } : TRUE

\* All values of a format.
FmtValues(f) ==
  { Fin(m) : m \in FmtMags(f) } \cup { Fin(-m) : m \in FmtMags(f) } \cup {PosInf, NegInf, NaN}


-----------------------------------------------------------------------------
(* Arithmetic of ElementCompute (IEEE 754, round to nearest even) *)

\* cutlass::NumericConverter<To, From, Round>: the value rounded to the
\* destination type; infinities and NaN carry over (and so does the
\* indeterminate value of an element that was never stored).
Convert(f, v) ==
  CHOOSE r \in { IF IsFin(x) THEN RoundTo(f, x.n, 1) ELSE x : x \in {v} } : TRUE

\* The difference of two values
Difference(a, b) ==
  IF IsNaN(a) \/ IsNaN(b) THEN NaN
  ELSE IF IsInf(a) /\ IsInf(b) THEN (IF a.n = b.n THEN NaN ELSE a)
  ELSE IF IsInf(a) THEN a
  ELSE IF IsInf(b) THEN Neg(b)
  ELSE RoundTo(ComputeFmt, a.n - b.n, 1)

\* The product of two values
Product(a, b) ==
  IF IsNaN(a) \/ IsNaN(b) THEN NaN
  ELSE IF IsInf(a) \/ IsInf(b)
    THEN (IF IsZero(a) \/ IsZero(b) THEN NaN
          ELSE IF SignOf(a) * SignOf(b) > 0 THEN PosInf ELSE NegInf)
  ELSE RoundTo(ComputeFmt, a.n * b.n, One)

\* The quotient of two values.  x/0 is an infinity for x # 0 and NaN for
\* x = 0; no trap is taken.
Quotient(a, b) ==
  IF IsNaN(a) \/ IsNaN(b) THEN NaN
  ELSE IF IsInf(a) /\ IsInf(b) THEN NaN
  ELSE IF IsZero(a) /\ IsZero(b) THEN NaN
  ELSE IF IsInf(a) \/ IsZero(b)
    THEN (IF SignOf(a) * (IF IsZero(b) THEN 1 ELSE SignOf(b)) > 0 THEN PosInf ELSE NegInf)
  ELSE IF IsInf(b) THEN Zero
  ELSE RoundTo(ComputeFmt, a.n * One * Sgn(b.n), Abs(b.n))

\* The expressions a - b, a * b and a / b: each operand is evaluated once,
\* then the operation is applied to the two values.
Sub(a, b) == CHOOSE r \in { Difference(x, y) : x \in {a}, y \in {b} } : TRUE
Mul(a, b) == CHOOSE r \in { Product(x, y) : x \in {a}, y \in {b} } : TRUE
Div(a, b) == CHOOSE r \in { Quotient(x, y) : x \in {a}, y \in {b} } : TRUE

\* The literal -0.5f
NegHalf == Fin(-(One \div 2))

\* e^(-n/32) in fixed point with 14 fraction bits, by square-and-multiply
\* from e^(-1/32) with truncation: a reduced-precision exponential, exactly 1
\* at 0.
RECURSIVE ExpFix(_)
ExpFix(n) ==
  IF n = 0 THEN Pow2(14)
  ELSE IF n % 2 = 0 THEN (ExpFix(n \div 2) ^ 2) \div Pow2(14)
  ELSE (ExpFix(n - 1) * 15879) \div Pow2(14)

\* The fast approximate exponential of a value.
FastExp(v) ==
  IF IsNaN(v) THEN NaN
  ELSE IF IsInf(v) THEN (IF v.n > 0 THEN PosInf ELSE Zero)
  ELSE IF v.n <= 0 THEN RoundTo(ComputeFmt, ExpFix(-v.n) * One, Pow2(14))
  ELSE IF ExpFix(v.n) = 0 THEN PosInf
  ELSE RoundTo(ComputeFmt, Pow2(14) * One, ExpFix(v.n))

\* __expf(v): the argument is evaluated once.
Expf(v) == CHOOSE r \in { FastExp(x) : x \in {v} } : TRUE

-----------------------------------------------------------------------------
(* The functor *)

\* static int const kCount = Count
kCount == 2

Lanes == 0..(kCount - 1)

\* The parameter buffers are one element longer than a fragment, so that the
\* scalar forms can be given an index no fragment lane has.
ParamIdx == 0..kCount

NULL == "nullptr"
Uninit == [k |-> "uninit", n |-> 0]

\* Params(): three null pointers
ParamsDefault == [p1 |-> NULL, p2 |-> NULL, p3 |-> NULL]

\* Params(p1, p2, p3)
ParamsOf(a, b, c) == [p1 |-> a, p2 |-> b, p3 |-> c]

\* A constructor whose third initializer names the wrong field.
ConstructMisnamed(ps) == <<ps.p1, ps.p2, ps.p2>>

\* GaussianEpilogue(Params const &params): the members <<p1_, p2_, p3_>>
Construct(ps) == <<ps.p1, ps.p2, ps.p3>>

\* p[i] for a pointer p held by the functor
Load(p, i) == mem[p][i]

\* cutlass::NumericArrayConverter: the scalar conversion, lane by lane
ArrayConvert(f, frag) == [l \in DOMAIN frag |-> Convert(f, frag[l])]

\* bool is_source_needed() const
is_source_needed == FALSE

\* A set_k_partition that, like the linear-combination epilogues, touches a
\* member on every partition but the first.
set_k_partition_rebinds(k_partition, k_partition_count) ==
  IF k_partition > 0 THEN <<p1_, p2_, p2_>> ELSE <<p1_, p2_, p3_>>

\* void set_k_partition(int, int): the members <<p1_, p2_, p3_>> it leaves
set_k_partition(k_partition, k_partition_count) == <<p1_, p2_, p3_>>

\* operator()(FragmentAccumulator const &, FragmentSource const &): the value
\* the loop body stores to intermediate[i]
FragSrcLane(x, i) ==
  LET diff == Div(Sub(Load(p2_, i), x), Load(p3_, i))
  IN Mul(Load(p1_, i), Expf(Mul(Mul(NegHalf, diff), diff)))

\* ... and the parameter elements that body reads
FragSrcLaneReads(i) == {<<p2_, i>>, <<p3_, i>>, <<p1_, i>>}

\* for (int i = 0; i < kCount; ++i) of the two-argument fragment form: the
\* values of i for which the body runs
FragSrcIters == { i \in 0..kCount : \A j \in 0..i : j < kCount }

\* A two-argument form that adds the converted source, as a linear
\* combination would.
FragApplySrcAddsSource(accumulator, source) ==
  LET converted_source == ArrayConvert(ComputeFmt, source)
      converted_accumulator == ArrayConvert(ComputeFmt, accumulator)
      intermediate_ == [l \in Lanes |->
                          Sub(FragSrcLane(converted_accumulator[l], l),
                              Neg(converted_source[l]))]
  IN [out |-> ArrayConvert(OutputFmt, intermediate_),
      rd |-> UNION { FragSrcLaneReads(i) : i \in FragSrcIters }]

\* FragmentOutput operator()(FragmentAccumulator const &, FragmentSource const &).
\* Iteration i stores intermediate[i] and nothing else; a lane no iteration
\* stores keeps the indeterminate value of the declaration.
FragApplySrc(accumulator, source) ==
  LET converted_source == ArrayConvert(ComputeFmt, source)
      converted_accumulator == ArrayConvert(ComputeFmt, accumulator)
      intermediate_ == [l \in Lanes |->
                          IF l \in FragSrcIters THEN FragSrcLane(converted_accumulator[l], l)
                          ELSE Uninit]
  IN [out |-> ArrayConvert(OutputFmt, intermediate_),
      rd |-> UNION { FragSrcLaneReads(i) : i \in FragSrcIters }]

\* A loop body that leaves the mean out of the difference.
FragLaneNoMean(x, i) ==
  LET diff == Div(x, Load(p3_, i))
  IN Mul(Load(p1_, i), Expf(Mul(Mul(NegHalf, diff), diff)))

\* operator()(FragmentAccumulator const &): the value the loop body stores to
\* intermediate[i]
FragLane(x, i) ==
  LET diff == Div(Sub(Load(p2_, i), x), Load(p3_, i))
  IN Mul(Load(p1_, i), Expf(Mul(Mul(NegHalf, diff), diff)))

\* ... and the parameter elements that body reads
FragLaneReads(i) == {<<p2_, i>>, <<p3_, i>>, <<p1_, i>>}

\* A loop that stops one lane early.
FragLoopCondShort(i) == i < kCount - 1

\* The loop condition i < kCount
FragLoopCond(i) == i < kCount

\* for (int i = 0; i < kCount; ++i) of the one-argument fragment form: the
\* values of i for which the body runs
FragIters == { i \in 0..kCount : \A j \in 0..i : FragLoopCond(j) }

\* FragmentOutput operator()(FragmentAccumulator const &)
FragApply(accumulator) ==
  LET converted_accumulator == ArrayConvert(ComputeFmt, accumulator)
      intermediate_ == [l \in Lanes |->
                          IF l \in FragIters THEN FragLane(converted_accumulator[l], l)
                          ELSE Uninit]
  IN [out |-> ArrayConvert(OutputFmt, intermediate_),
      rd |-> UNION { FragLaneReads(i) : i \in FragIters }]

\* A scalar form that guards the division: a zero p3 is taken as 1.
ScalarApplySrcClamped(accumulator, source, idx) ==
  LET x == Convert(ComputeFmt, accumulator)
      sd == IF IsZero(Load(p3_, idx)) THEN Fin(One) ELSE Load(p3_, idx)
      diff == Div(Sub(Load(p2_, idx), x), sd)
      result == Mul(Load(p1_, idx), Expf(Mul(Mul(NegHalf, diff), diff)))
  IN [out |-> Convert(OutputFmt, result),
      rd |-> {<<p2_, idx>>, <<p3_, idx>>, <<p1_, idx>>}]

\* ElementD operator()(ElementAccumulator, ElementC, int idx)
ScalarApplySrc(accumulator, source, idx) ==
  LET converted_accumulator == Convert(ComputeFmt, accumulator)
      x == converted_accumulator
      diff == Div(Sub(Load(p2_, idx), x), Load(p3_, idx))
      result == Mul(Load(p1_, idx), Expf(Mul(Mul(NegHalf, diff), diff)))
  IN [out |-> Convert(OutputFmt, result),
      rd |-> {<<p2_, idx>>, <<p3_, idx>>, <<p1_, idx>>}]

\* A scalar form that multiplies by diff once: exp(-0.5 * diff).
ScalarApplyNoSquare(accumulator, idx) ==
  LET x == Convert(ComputeFmt, accumulator)
      diff == Div(Sub(Load(p2_, idx), x), Load(p3_, idx))
      result == Mul(Load(p1_, idx), Expf(Mul(NegHalf, diff)))
  IN [out |-> Convert(OutputFmt, result),
      rd |-> {<<p2_, idx>>, <<p3_, idx>>, <<p1_, idx>>}]

\* A scalar form with the sign of the exponent lost: exp(+0.5 * diff^2).
ScalarApplyGrowing(accumulator, idx) ==
  LET x == Convert(ComputeFmt, accumulator)
      diff == Div(Sub(Load(p2_, idx), x), Load(p3_, idx))
      result == Mul(Load(p1_, idx), Expf(Mul(Mul(Neg(NegHalf), diff), diff)))
  IN [out |-> Convert(OutputFmt, result),
      rd |-> {<<p2_, idx>>, <<p3_, idx>>, <<p1_, idx>>}]

\* A scalar form that ignores idx and uses the first parameter element.
ScalarApplyFirstElement(accumulator, idx) ==
  LET x == Convert(ComputeFmt, accumulator)
      diff == Div(Sub(Load(p2_, 0), x), Load(p3_, 0))
      result == Mul(Load(p1_, 0), Expf(Mul(Mul(NegHalf, diff), diff)))
  IN [out |-> Convert(OutputFmt, result),
      rd |-> {<<p2_, 0>>, <<p3_, 0>>, <<p1_, 0>>}]

\* ElementD operator()(ElementAccumulator, int idx)
ScalarApply(accumulator, idx) ==
  LET converted_accumulator == Convert(ComputeFmt, accumulator)
      x == converted_accumulator
      diff == Div(Sub(Load(p2_, idx), x), Load(p3_, idx))
      result == Mul(Load(p1_, idx), Expf(Mul(Mul(NegHalf, diff), diff)))
  IN [out |-> Convert(OutputFmt, result),
      rd |-> {<<p2_, idx>>, <<p3_, idx>>, <<p1_, idx>>}]

-----------------------------------------------------------------------------
(* Inputs *)

\* Largest partition count given to set_k_partition.
MaxPartitions == 2

\* The array whose element i is the i-th entry of pattern pat (cyclically).
ArrayOf(pat) == [i \in ParamIdx |-> Fin(pat[(i % Len(pat)) + 1])]

\* Parameter buffers whose elements differ from index to index
\* (in units of 1/32: 64 is 2.0, 16 is 0.5).
AmpArrays == { ArrayOf(<<64, -32, 16>>), ArrayOf(<<-64, 96, 32>>) }
MeanArrays == { ArrayOf(<<32, 0, 64>>) }
SdArrays == { ArrayOf(<<16, 64, 0>>), ArrayOf(<<0, -32, 16>>) }

\* Accumulator values: exact in ElementCompute (0 and 1), needing rounding
\* (2.25, which becomes 2), and NaN.
AccIn == { Fin(0), Fin(32), Fin(72), NaN }
AccFrags == [Lanes -> AccIn]

SrcIn == { Fin(32), NaN }
SrcFrags == { [l \in Lanes |-> s] : s \in SrcIn }

\* Parameter buffers holding one value at every index, and every value of the
\* accumulator type.
AmpUniform == { ArrayOf(<<n>>) : n \in {64, -32} }
MeanUniform == { ArrayOf(<<n>>) : n \in {32, -20} }
SdUniform == { ArrayOf(<<n>>) : n \in {16, -64, 0} }
AccAll == FmtValues(AccFmt)

NoFrag == [l \in Lanes |-> Zero]
NoCall == [op |-> "none", facc |-> NoFrag, fsrc |-> NoFrag, sacc |-> Zero,
           ssrc |-> Zero, idx |-> 0, k |-> 0, kc |-> 0]
NoRet == [kind |-> "none", b |-> FALSE, frag |-> NoFrag, val |-> Zero]

-----------------------------------------------------------------------------
(* Sequential use of one functor *)

\* A functor constructed from ps over the given buffer contents.
Constructed(ps, amp, mean, sd) ==
  /\ mem = [b \in {"amp", "mean", "sd"} |->
              IF b = "amp" THEN amp ELSE IF b = "mean" THEN mean ELSE sd]
  /\ params = ps
  /\ p1_ = Construct(ps)[1]
  /\ p2_ = Construct(ps)[2]
  /\ p3_ = Construct(ps)[3]
  /\ call = NoCall
  /\ ret = NoRet
  /\ reads = {}
  /\ partitioned = FALSE
  /\ upc = <<>> /\ uacc = <<>> /\ uconv = <<>> /\ ui = <<>> /\ uout = <<>>
  /\ intermediate = <<>>

\* Either a functor over three live buffers, or one constructed from Params().
Init ==
  \E amp \in AmpArrays, mean \in MeanArrays, sd \in SdArrays :
    \E ps \in {ParamsOf("amp", "mean", "sd"), ParamsDefault} :
      Constructed(ps, amp, mean, sd)

InitNum ==
  \E amp \in AmpUniform, mean \in MeanUniform, sd \in SdUniform :
    Constructed(ParamsOf("amp", "mean", "sd"), amp, mean, sd)

\* The caller's obligation before any apply: no null parameter pointer.
Invocable == p1_ # NULL /\ p2_ # NULL /\ p3_ # NULL

IsSourceNeeded ==
  /\ call' = [NoCall EXCEPT !.op = "is_source_needed"]
  /\ ret' = [NoRet EXCEPT !.kind = "bool", !.b = is_source_needed]
  /\ reads' = {}
  /\ UNCHANGED <<functorVars, partitioned, unitVars>>

SetKPartition(k, kc) ==
  /\ LET m == set_k_partition(k, kc)
     IN p1_' = m[1] /\ p2_' = m[2] /\ p3_' = m[3]
  /\ call' = [NoCall EXCEPT !.op = "set_k_partition", !.k = k, !.kc = kc]
  /\ ret' = [NoRet EXCEPT !.kind = "void"]
  /\ reads' = {}
  /\ partitioned' = TRUE
  /\ UNCHANGED <<mem, params, unitVars>>

FragCall(acc) ==
  /\ Invocable
  /\ LET r == FragApply(acc)
     IN /\ ret' = [NoRet EXCEPT !.kind = "frag", !.frag = r.out]
        /\ reads' = r.rd
  /\ call' = [NoCall EXCEPT !.op = "frag", !.facc = acc]
  /\ UNCHANGED <<functorVars, partitioned, unitVars>>

FragSrcCall(acc, src) ==
  /\ Invocable
  /\ LET r == FragApplySrc(acc, src)
     IN /\ ret' = [NoRet EXCEPT !.kind = "frag", !.frag = r.out]
        /\ reads' = r.rd
  /\ call' = [NoCall EXCEPT !.op = "frag_src", !.facc = acc, !.fsrc = src]
  /\ UNCHANGED <<functorVars, partitioned, unitVars>>

ScalarCall(acc, idx) ==
  /\ Invocable
  /\ LET r == ScalarApply(acc, idx)
     IN /\ ret' = [NoRet EXCEPT !.kind = "scalar", !.val = r.out]
        /\ reads' = r.rd
  /\ call' = [NoCall EXCEPT !.op = "scalar", !.sacc = acc, !.idx = idx]
  /\ UNCHANGED <<functorVars, partitioned, unitVars>>

ScalarSrcCall(acc, src, idx) ==
  /\ Invocable
  /\ LET r == ScalarApplySrc(acc, src, idx)
     IN /\ ret' = [NoRet EXCEPT !.kind = "scalar", !.val = r.out]
        /\ reads' = r.rd
  /\ call' = [NoCall EXCEPT !.op = "scalar_src", !.sacc = acc, !.ssrc = src, !.idx = idx]
  /\ UNCHANGED <<functorVars, partitioned, unitVars>>

Partitions == \E kc \in 1..MaxPartitions : \E k \in 0..(kc - 1) : SetKPartition(k, kc)

Next ==
  \/ IsSourceNeeded
  \/ Partitions
  \/ \E acc \in AccFrags : FragCall(acc)
  \/ \E acc \in AccFrags, src \in SrcFrags : FragSrcCall(acc, src)
  \/ \E acc \in AccIn, idx \in ParamIdx : ScalarCall(acc, idx)
  \/ \E acc \in AccIn, src \in SrcIn, idx \in ParamIdx : ScalarSrcCall(acc, src, idx)

Spec == Init /\ [][Next]_vars

\* Scalar calls over every value of the accumulator type.
NextNum ==
  \/ IsSourceNeeded
  \/ \E acc \in SrcFrags : FragCall(acc)
  \/ \E acc \in SrcFrags : FragSrcCall(acc, acc)
  \/ \E acc \in AccAll : ScalarCall(acc, 0)
  \/ \E acc \in SrcIn, idx \in ParamIdx : ScalarSrcCall(acc, acc, idx)

SpecNum == InitNum /\ [][NextNum]_vars

-----------------------------------------------------------------------------
(* Concurrent use: several execution units run operator()(accumulator) on one *)
(* functor, each on its own fragment, one statement at a time.               *)

\* Number of execution units.
NumUnits == 2

Units == 1..NumUnits

\* An `intermediate` with static storage: one object for all invocations.
IntermediateShared(u) == 1

\* Where a unit's local `FragmentCompute intermediate` lives: an automatic
\* variable, so a slot of its own for each invocation.
IntermediateOf(u) == u

ConcFrags == { [l \in Lanes |-> IF l = 0 THEN a ELSE Fin(72)] : a \in {Fin(32), NaN} }

InitConc ==
  /\ \E sd \in SdArrays :
       mem = [b \in {"amp", "mean", "sd"} |->
                IF b = "amp" THEN ArrayOf(<<64, -32, 16>>)
                ELSE IF b = "mean" THEN ArrayOf(<<32, 0, 64>>) ELSE sd]
  /\ params = ParamsOf("amp", "mean", "sd")
  /\ p1_ = Construct(params)[1]
  /\ p2_ = Construct(params)[2]
  /\ p3_ = Construct(params)[3]
  /\ call = NoCall /\ ret = NoRet /\ reads = {} /\ partitioned = FALSE
  /\ upc = [u \in Units |-> "idle"]
  /\ uacc = [u \in Units |-> NoFrag]
  /\ uconv = [u \in Units |-> NoFrag]
  /\ ui = [u \in Units |-> 0]
  /\ uout = [u \in Units |-> NoFrag]
  /\ intermediate = [u \in Units |-> [l \in Lanes |-> Uninit]]

\* The unit is handed its accumulator fragment and enters operator().
UnitStart(u, acc) ==
  /\ upc[u] = "idle"
  /\ Invocable
  /\ upc' = [upc EXCEPT ![u] = "convert"]
  /\ uacc' = [uacc EXCEPT ![u] = acc]
  /\ UNCHANGED <<functorVars, seqVars, uconv, ui, uout, intermediate>>

\* converted_accumulator = accumulator_converter(accumulator);
\* FragmentCompute intermediate;  int i = 0
UnitConvert(u) ==
  /\ upc[u] = "convert"
  /\ uconv' = [uconv EXCEPT ![u] = ArrayConvert(ComputeFmt, uacc[u])]
  /\ intermediate' = [intermediate EXCEPT ![IntermediateOf(u)] = [l \in Lanes |-> Uninit]]
  /\ ui' = [ui EXCEPT ![u] = 0]
  /\ upc' = [upc EXCEPT ![u] = "loop"]
  /\ UNCHANGED <<functorVars, seqVars, uacc, uout>>

\* One test of the loop condition and, when it holds, one run of the body.
UnitLoop(u) ==
  /\ upc[u] = "loop"
  /\ IF FragLoopCond(ui[u])
       THEN /\ \E v \in {FragLane(uconv[u][ui[u]], ui[u])} :
                 intermediate' = [intermediate EXCEPT ![IntermediateOf(u)][ui[u]] = v]
            /\ ui' = [ui EXCEPT ![u] = ui[u] + 1]
            /\ upc' = upc
       ELSE /\ upc' = [upc EXCEPT ![u] = "return"]
            /\ UNCHANGED <<ui, intermediate>>
  /\ UNCHANGED <<functorVars, seqVars, uacc, uconv, uout>>

\* return destination_converter(intermediate);
UnitReturn(u) ==
  /\ upc[u] = "return"
  /\ uout' = [uout EXCEPT ![u] = ArrayConvert(OutputFmt, intermediate[IntermediateOf(u)])]
  /\ upc' = [upc EXCEPT ![u] = "done"]
  /\ UNCHANGED <<functorVars, seqVars, uacc, uconv, ui, intermediate>>

UnitStep(u) == UnitConvert(u) \/ UnitLoop(u) \/ UnitReturn(u)

NextConc ==
  \E u \in Units :
    \/ \E acc \in ConcFrags : UnitStart(u, acc)
    \/ UnitConvert(u)
    \/ UnitLoop(u)
    \/ UnitReturn(u)

\* Every unit that has entered operator() keeps being scheduled: nothing in
\* the body waits.
SpecConc == InitConc /\ [][NextConc]_vars /\ \A u \in Units : WF_vars(UnitStep(u))

-----------------------------------------------------------------------------
(* Properties *)

\* The buffers the functor was constructed over.
P1(i) == mem[params.p1][i]
P2(i) == mem[params.p2][i]
P3(i) == mem[params.p3][i]

\* D = p1 * exp(-0.5 * ((p2 - x) / p3)^2) for accumulator value a at index i,
\* with x the accumulator in ElementCompute and the result in ElementOutput.
GaussRef(a, i) ==
  LET x == Convert(ComputeFmt, a)
      d == Div(Sub(P2(i), x), P3(i))
  IN Convert(OutputFmt, Mul(P1(i), Expf(Mul(Mul(NegHalf, d), d))))

FragOps == {"frag", "frag_src"}
ScalarOps == {"scalar", "scalar_src"}

\* The (accumulator, index, output) triples of a call cl that returned rt, one
\* per lane.
CasesOf(cl, rt) ==
  IF cl.op \in FragOps
    THEN { [a |-> cl.facc[l], i |-> l, out |-> rt.frag[l]] : l \in Lanes }
  ELSE IF cl.op \in ScalarOps
    THEN { [a |-> cl.sacc, i |-> cl.idx, out |-> rt.val] }
  ELSE {}

\* ... of the last call
Cases == CasesOf(call, ret)

NonFinite(v) == IsInf(v) \/ IsNaN(v)

\* A value as a number for comparisons, the infinities beyond every finite one.
Key(v) == IF IsInf(v) THEN v.n * 1000000 ELSE v.n

\* C1 as stated: whenever p3[i] = 0 and the accumulator is not equal to p2[i],
\* every form of apply yields an infinite or NaN output.
C1_DegenerateNonFinite ==
  \A c \in Cases : (IsZero(P3(c.i)) /\ c.a # P2(c.i)) => NonFinite(c.out)

\* C1 amended: with p3[i] = 0 (p1[i], p2[i] finite), every form of apply yields
\* a zero output when the compute-type accumulator differs from p2[i] (the
\* difference is infinite and the exponential factor 0), and NaN when it equals
\* p2[i] or the accumulator is NaN; the output is never infinite.
C1_DegenerateZeroOrNaN ==
  \A c \in Cases :
    IsZero(P3(c.i)) =>
      LET x == Convert(ComputeFmt, c.a)
      IN IF IsNaN(x) \/ x = P2(c.i) THEN IsNaN(c.out) ELSE IsZero(c.out)

C1_Witness ==
  /\ call.op = "scalar_src"
  /\ \E c \in Cases :
       /\ IsZero(P3(c.i)) /\ IsFin(c.a)
       /\ Convert(ComputeFmt, c.a) # P2(c.i)
       /\ IsZero(c.out)

\* C2: the two-argument forms return what the one-argument forms return on the
\* same accumulator and index, whatever the source: fragment against fragment,
\* scalar against scalar.
C2_SourceIgnored ==
  /\ call.op = "frag_src" => ret.frag = FragApply(call.facc).out
  /\ call.op = "scalar_src" => ret.val = ScalarApply(call.sacc, call.idx).out

C2_Witness ==
  /\ call.op = "frag_src"
  /\ \A l \in Lanes : IsNaN(call.fsrc[l]) /\ IsFin(ret.frag[l]) /\ ~IsZero(ret.frag[l])

\* C3: the one-argument fragment form writes every one of the kCount output
\* lanes; lane i is the Gaussian of accumulator lane i with p1[i], p2[i], p3[i],
\* whatever the other lanes hold; and the parameter elements read are exactly
\* those at indices 0..kCount-1.
C3_LaneWiseMap ==
  call.op = "frag" =>
    /\ DOMAIN ret.frag = Lanes
    /\ \A i \in Lanes :
         /\ ret.frag[i] = GaussRef(call.facc[i], i)
         /\ \A g \in AccFrags : g[i] = call.facc[i] => FragApply(g).out[i] = ret.frag[i]
    /\ reads = { <<b, i>> : b \in {params.p1, params.p2, params.p3}, i \in Lanes }

C3_Witness ==
  /\ call.op = "frag"
  /\ \E i, j \in Lanes :
       /\ call.facc[i] # call.facc[j]
       /\ IsFin(ret.frag[i]) /\ IsFin(ret.frag[j])
       /\ ~IsZero(ret.frag[i]) /\ ret.frag[i] # ret.frag[j]

\* C4: a set_k_partition step leaves the members p1_, p2_, p3_ and the
\* parameter buffers as they were, and every apply made after any number of
\* set_k_partition calls returns the Gaussian of its own inputs, the value it
\* returns on a functor that was never partitioned.
C4_SetKPartitionNoOp ==
  [][ /\ call'.op = "set_k_partition" =>
           (p1_' = p1_ /\ p2_' = p2_ /\ p3_' = p3_ /\ mem' = mem)
      /\ partitioned' => (\A c \in CasesOf(call', ret') : c.out = GaussRef(c.a, c.i))
    ]_vars

C4_Witness ==
  /\ partitioned
  /\ call.op = "frag"
  /\ \E c \in Cases : IsFin(c.out) /\ ~IsZero(c.out)

\* C5: with p3[i] # 0, an accumulator whose compute-type value equals p2[i]
\* yields p1[i] converted to the output type, in every form of apply.
C5_Peak ==
  \A c \in Cases :
    (~IsZero(P3(c.i)) /\ Convert(ComputeFmt, c.a) = P2(c.i))
      => c.out = Convert(OutputFmt, P1(c.i))

C5_Witness ==
  /\ call.op = "frag"
  /\ \E c \in Cases :
       /\ ~IsZero(P3(c.i)) /\ ~IsZero(P2(c.i))
       /\ Convert(ComputeFmt, c.a) = P2(c.i)
       /\ c.out = Convert(OutputFmt, P1(c.i))

\* Two compute-type values at opposite offsets from m: m + d and m - d.
Mirrored(x1, x2, m) ==
  \/ IsFin(x1) /\ IsFin(x2) /\ x1.n - m.n = m.n - x2.n
  \/ IsInf(x1) /\ IsInf(x2) /\ x1.n = -x2.n

\* C6: for a fixed index, two accumulators whose compute-type values lie at
\* opposite offsets d and -d from p2[i] give the same output.
C6_Symmetry ==
  call.op = "scalar" =>
    \A a2 \in AccAll :
      Mirrored(Convert(ComputeFmt, call.sacc), Convert(ComputeFmt, a2), P2(call.idx))
        => ScalarApply(a2, call.idx).out = ret.val

C6_Witness ==
  /\ call.op = "scalar"
  /\ IsFin(ret.val) /\ ~IsZero(ret.val)
  /\ \E a2 \in AccAll :
       /\ Convert(ComputeFmt, a2) # Convert(ComputeFmt, call.sacc)
       /\ Mirrored(Convert(ComputeFmt, call.sacc), Convert(ComputeFmt, a2), P2(call.idx))
       /\ ScalarApply(a2, call.idx).out = ret.val

\* |a| >= |b| for two outputs, neither of them NaN.
MagnitudeGeq(a, b) ==
  /\ ~IsNaN(a) /\ ~IsNaN(b)
  /\ (IF Key(a) < 0 THEN -Key(a) ELSE Key(a)) >= (IF Key(b) < 0 THEN -Key(b) ELSE Key(b))

\* C7: with p3[i] # 0, for accumulators p2[i] + d1 and p2[i] + d2 with
\* d2 > d1 >= 0, the output at d1 is at least as large in magnitude as the
\* output at d2.
C7_MonotoneDecay ==
  (/\ call.op = "scalar"
   /\ ~IsZero(P3(call.idx))
   /\ ~IsNaN(call.sacc)
   /\ Key(call.sacc) >= Key(P2(call.idx)))
    => \A a2 \in AccAll :
         (~IsNaN(a2) /\ Key(a2) > Key(call.sacc))
           => MagnitudeGeq(ret.val, ScalarApply(a2, call.idx).out)

C7_Witness ==
  /\ call.op = "scalar"
  /\ ~IsZero(P3(call.idx))
  /\ IsFin(call.sacc) /\ call.sacc.n > P2(call.idx).n
  /\ IsFin(ret.val) /\ ~IsZero(ret.val)
  /\ \E a2 \in AccAll :
       /\ IsFin(a2) /\ a2.n > call.sacc.n
       /\ ~IsZero(ScalarApply(a2, call.idx).out)
       /\ ScalarApply(a2, call.idx).out # ret.val
       /\ MagnitudeGeq(ret.val, ScalarApply(a2, call.idx).out)

\* C8: in every reachable state the functor holds the three pointers it was
\* constructed with, is_source_needed has returned false, and whatever calls
\* came before, an apply has returned the Gaussian of its own accumulator,
\* index and parameter elements.
C8_Stateless ==
  /\ p1_ = params.p1 /\ p2_ = params.p2 /\ p3_ = params.p3
  /\ call.op = "is_source_needed" => (ret.kind = "bool" /\ ret.b = FALSE)
  /\ \A c \in Cases : c.out = GaussRef(c.a, c.i)

C8_Witness ==
  /\ partitioned
  /\ call.op = "scalar_src"
  /\ p1_ = "amp" /\ p2_ = "mean" /\ p3_ = "sd"
  /\ IsFin(ret.val) /\ ~IsZero(ret.val)

\* C9: with several units running operator() at once, no step changes the
\* parameter buffers or the functor's members; a unit that has returned holds
\* the fragment the same call yields when run alone; a unit inside operator()
\* always has a step it can take; and every unit that entered returns.
C9_RaceFree ==
  /\ [][mem' = mem /\ p1_' = p1_ /\ p2_' = p2_ /\ p3_' = p3_]_vars
  /\ [](\A u \in Units : upc[u] = "done" => uout[u] = FragApply(uacc[u]).out)
  /\ [](\A u \in Units : upc[u] \in {"convert", "loop", "return"} => ENABLED UnitStep(u))
  /\ \A u \in Units : (upc[u] = "convert") ~> (upc[u] = "done")

C9_Witness ==
  \E u, v \in Units :
    /\ u # v
    /\ upc[u] = "done" /\ uout[u] = FragApply(uacc[u]).out
    /\ upc[v] = "loop" /\ ui[v] = 1
    /\ uacc[u] # uacc[v]
    /\ intermediate[IntermediateOf(u)] # intermediate[IntermediateOf(v)]

\* C10: a scalar apply with an index idx inside a fragment returns what lane
\* idx of either fragment form returns on any fragment holding that accumulator
\* at lane idx; a fragment apply returns, lane by lane, what the scalar form
\* returns; the scalar forms read p1[idx], p2[idx], p3[idx] and nothing else;
\* and they take an index beyond the fragment width too.
C10_ScalarFragmentAgree ==
  /\ call.op \in ScalarOps =>
       /\ reads = { <<b, call.idx>> : b \in {params.p1, params.p2, params.p3} }
       /\ ret.val = GaussRef(call.sacc, call.idx)
       /\ call.idx \in Lanes =>
            \A g \in AccFrags :
              g[call.idx] = call.sacc =>
                /\ FragApply(g).out[call.idx] = ret.val
                /\ FragApplySrc(g, call.fsrc).out[call.idx] = ret.val
  /\ call.op \in FragOps =>
       \A i \in Lanes :
         /\ ScalarApply(call.facc[i], i).out = ret.frag[i]
         /\ ScalarApplySrc(call.facc[i], call.fsrc[i], i).out = ret.frag[i]

C10_Witness ==
  /\ call.op = "scalar"
  /\ call.idx = kCount - 1
  /\ IsFin(ret.val) /\ ~IsZero(ret.val)
  /\ \E g \in AccFrags : g[call.idx] = call.sacc /\ g[0] # call.sacc

=============================================================================
